---- MODULE Spec2Model ----
(***************************************************************************)
(* fast-memo: memoize(fn, options) of src/src/memoize.ts.                  *)
(*                                                                         *)
(* One wrapped function with its own store (the Map `cache`), the clock    *)
(* Date.now(), and the underlying function fn as the environment: every    *)
(* invocation of fn either returns a value, throws, or returns a promise   *)
(* that is fulfilled or rejected later.  Values and errors are identified  *)
(* by the invocation that produced them, so that "the same value" and      *)
(* "the same error" mean referential identity.                             *)
(*                                                                         *)
(* Time is counted in milliseconds.  The settlement of a promise and the   *)
(* continuation that memoized registered on it (.then / .catch) are one    *)
(* step: the continuation is what the wrapper runs, and the handle the     *)
(* callers hold settles when it has run.                                   *)
(*                                                                         *)
(* Spec is the wrapper under a custom key generator (one that maps two     *)
(* argument lists to one fingerprint, and one that throws for an argument  *)
(* list); SpecStats is the wrapper under the default key generator, with   *)
(* one more invocation, so that three fingerprints can be in the store.    *)
(* SpecAsync is Spec around a function that only ever returns promises,    *)
(* SpecTwo is Spec with a second wrapped function made by another memoize  *)
(* call, and SpecLive is the wrapper under the first of the custom key     *)
(* generators with every promise settled in the end.                       *)
(***************************************************************************)
EXTENDS Integers, Sequences, FiniteSets, TLC

(* ----------------------------- bounds ---------------------------------- *)

\* the clock runs from 0 to MaxTime
MaxTime == 2
\* at most MaxInv invocations of the underlying function
MaxInv == 2
\* at most MaxStatsInv invocations in the runs that fill the store (SpecStats)
MaxStatsInv == 3

(* --------------------------- the inputs -------------------------------- *)

\* argument lists (id, opt) the wrapped function is called with
ArgLists == {<<1, 1>>, <<1, 2>>, <<2, 1>>}

\* clear(key?): no argument / null is modelled by the empty tuple
NoKey == <<>>

\* the result of a key generator that throws
KeyThrow == "!throw"

\* the configurations memoize() is constructed with
\* <<ttl, errorTTL>>
Lifetimes == {<<1, 0>>}
\* the key generators: custom ones, and the default one
CustomKeyGenerators == {"byId", "strict"}
DefaultKeyGenerator == {"default"}

\* what one invocation of fn does
FnBehaviours == {"return", "throw", "async"}

\* an asynchronous function: it returns a promise and never throws
AsyncBehaviours == {"async"}

VARIABLES
    ttl,            \* options.ttl
    errorTTL,       \* options.errorTTL
    cacheErrors,    \* options.cacheErrors
    keyGenerator,   \* options.keyGenerator (which of KeyGenerators)
    now,            \* Date.now()
    cache,          \* the Map: a sequence of entries in insertion order
    invs,           \* the invocations of fn so far, in order
    fresh,          \* per fingerprint: the latest invocation of fn for it and
                    \* when it was made, while neither clear nor the settlement
                    \* of another invocation has touched the entry since (0: none)
    last,           \* the most recent operation and what its caller got
    other           \* a second wrapped function, made by another memoize call
                    \* around the same fn with the same options: its own Map
                    \* (cache), what fresh is for it, and which of the
                    \* invocations it made (invs); id numbers the two

vars == <<ttl, errorTTL, cacheErrors, keyGenerator, now, cache, invs, fresh, last,
          other>>

(* ------------------------- key generators ------------------------------ *)

\* JSON.stringify(args) on the modelled argument lists (all serializable, so
\* the catch branch of defaultKeyGen is not taken)
defaultKeyGen(args) ==
    CASE args = <<1, 1>> -> "[1,1]"
      [] args = <<1, 2>> -> "[1,2]"
      [] args = <<2, 1>> -> "[2,1]"

\* a custom generator (id, opt) => `${id}`: ignores the second argument
byIdKeyGen(args) ==
    IF args[1] = 1 THEN "1" ELSE "2"

\* a custom generator (id, opt) => `${id}:${opt}` that throws when opt is 2
strictKeyGen(args) ==
    IF args[2] = 2 THEN KeyThrow
    ELSE IF args[1] = 1 THEN "1:1" ELSE "2:1"

\* options.keyGenerator applied to an argument list (defaultKeyGen when the
\* option is not given)
Fingerprint(args) ==
    CASE keyGenerator = "default" -> defaultKeyGen(args)
      [] keyGenerator = "byId"    -> byIdKeyGen(args)
      [] keyGenerator = "strict"  -> strictKeyGen(args)

\* mutant of KeyOf: options.keyGenerator is ignored
KeyOfDefault(args) == defaultKeyGen(args)

\* const key = keyGenerator(...args)
KeyOf(args) == Fingerprint(args)

\* every fingerprint a configured generator can return
Fingerprints == {"[1,1]", "[1,2]", "[2,1]", "1", "2", "1:1", "2:1"}

(* ------------------------------ values --------------------------------- *)

\* the value invocation i returned or was fulfilled with, the error it threw
\* or was rejected with, and the promise memoized made of it and returns
\* (result.then(...).catch(...))
Val(i)     == [t |-> "val", inv |-> i]
Err(i)     == [t |-> "err", inv |-> i]
Promise(i) == [t |-> "promise", inv |-> i]
\* the promise fn itself returned (result, before .then().catch())
RawPromise(i) == [t |-> "raw", inv |-> i]
NoValue    == [t |-> "none", inv |-> 0]
KeyGenErr  == [t |-> "keyerr", inv |-> 0]

(* --------------------------- the Map store ----------------------------- *)

\* CacheEntry, together with the key it is stored under
Entry(key, value, expiresAt, isError) ==
    [key |-> key, value |-> value, expiresAt |-> expiresAt, isError |-> isError]

\* cache.has(key)
CacheHas(c, key) == \E n \in 1..Len(c) : c[n].key = key

\* cache.get(key), for a key that is present
CacheGet(c, key) == c[CHOOSE n \in 1..Len(c) : c[n].key = key]

\* cache.delete(key)
CacheDelete(c, key) == SelectSeq(c, LAMBDA e : e.key # key)

\* cache.set(key, entry): an existing key keeps its place, a new one goes last
CacheSet(c, e) ==
    IF CacheHas(c, e.key)
    THEN [n \in 1..Len(c) |-> IF c[n].key = e.key THEN e ELSE c[n]]
    ELSE Append(c, e)

\* Array.from(cache.keys())
CacheKeys(c) == [n \in 1..Len(c) |-> c[n].key]

\* new Map(): the store one memoize call makes
NewStore == <<>>

(* ---------------------------- memoized --------------------------------- *)

\* mutant of IsExpired: an entry expires at expiresAt, not after it
IsExpiredEager(entry) == now >= entry.expiresAt

\* purgeIfExpired: Date.now() > entry.expiresAt
IsExpired(entry) == now > entry.expiresAt

\* a hit: throw the stored error, or return the stored value
HitOutcome(cached) ==
    IF cached.isError
    THEN [mode |-> "throw", value |-> cached.value]
    ELSE [mode |-> "return", value |-> cached.value]

\* mutant of SyncErrorEntry: the error is stored without the isError flag
SyncErrorEntryUnflagged(key, i) == Entry(key, Err(i), now + errorTTL, FALSE)

\* the entry stored when fn throws synchronously
SyncErrorEntry(key, i) == Entry(key, Err(i), now + errorTTL, TRUE)

\* mutant of AfterSyncThrow: the error is stored whatever cacheErrors is
AfterSyncThrowAlways(c, key, i) == CacheSet(c, SyncErrorEntry(key, i))

\* the store after fn threw synchronously
AfterSyncThrow(c, key, i) ==
    IF cacheErrors THEN CacheSet(c, SyncErrorEntry(key, i)) ELSE c

\* mutant of SyncResultEntry: the value is stored with the lifetime of errors
SyncResultEntryErrorTTL(key, i) == Entry(key, Val(i), now + errorTTL, FALSE)

\* the entry stored when fn returns a value that is no promise
SyncResultEntry(key, i) == Entry(key, Val(i), now + ttl, FALSE)

\* mutant of PendingEntry: the store holds the promise fn returned, not the
\* one the call returns
PendingEntryRaw(key, i) == Entry(key, RawPromise(i), now + ttl, FALSE)

\* the entry stored while the promise is pending
PendingEntry(key, i) == Entry(key, Promise(i), now + ttl, FALSE)

\* mutant of SettledEntry: the continuation stores the handle again, not the
\* value it was fulfilled with
SettledEntryHandle(key, i) == Entry(key, Promise(i), now + ttl, FALSE)

\* mutant of SettledEntry: the settled value keeps the expiry window that
\* started when fn was invoked
SettledEntryFromInvocation(key, i) ==
    Entry(key, Val(i), fresh[key].at + ttl, FALSE)

\* the .then continuation: the entry stored when the promise is fulfilled
SettledEntry(key, i) == Entry(key, Val(i), now + ttl, FALSE)

\* mutant of RejectedEntry: the error is stored with the lifetime of values
RejectedEntryTtl(key, i) == Entry(key, Err(i), now + ttl, TRUE)

\* the .catch continuation: the entry stored when the promise is rejected
RejectedEntry(key, i) == Entry(key, Err(i), now + errorTTL, TRUE)

\* mutant of AfterFulfil: the promise is fulfilled for its holders before the
\* store is written
AfterFulfilLate(c, key, i) == c

\* the store after the .then continuation
AfterFulfil(c, key, i) == CacheSet(c, SettledEntry(key, i))

\* mutant of AfterReject: without cacheErrors the pending entry is left in place
AfterRejectKeep(c, key, i) ==
    IF cacheErrors THEN CacheSet(c, Entry(key, Err(i), now + errorTTL, TRUE)) ELSE c

\* the store after the .catch continuation
AfterReject(c, key, i) ==
    IF cacheErrors THEN CacheSet(c, RejectedEntry(key, i)) ELSE CacheDelete(c, key)

\* what the promise handed to the callers settles to: the .then continuation
\* returns val, the .catch continuation rethrows err
ChainedOutcome(i, ok) ==
    IF ok THEN [state |-> "fulfilled", value |-> Val(i)]
    ELSE [state |-> "rejected", value |-> Err(i)]

\* one invocation of fn: its arguments, what became of it ("ok": it returned
\* a value or its promise was fulfilled; "failed": it threw or its promise was
\* rejected; "pending": its promise is not settled) and, while it is pending,
\* the handle that the call that made it returned
Invocation(args, state, handle) ==
    [args |-> args, state |-> state, handle |-> handle]

\* the fingerprint invocation i was made for
InvKey(i) == KeyOf(invs[i].args)

\* what an operation gave its caller; NoOp when nothing was called (a
\* millisecond passed, or memoize has just returned)
NoOp == [op |-> "none", args |-> <<>>, key |-> "", mode |-> "none",
         value |-> NoValue, inv |-> 0, size |-> 0, keys |-> <<>>]

CallResult(args, key, mode, value, inv) ==
    [NoOp EXCEPT !.op = "call", !.args = args, !.key = key, !.mode = mode,
                 !.value = value, !.inv = inv]

\* no invocation on record for a fingerprint
NotFresh == [inv |-> 0, at |-> 0]

\* fresh with the fingerprint key set to invocation i, made now (0: none)
FreshWith(key, i) ==
    [fresh EXCEPT ![key] = IF i = 0 THEN NotFresh ELSE [inv |-> i, at |-> now]]

\* mutant of AfterKeyFailure: the failure of the key generator is answered by
\* emptying the store
AfterKeyFailureCleared(c) == <<>>

\* the store after keyGenerator threw, in memoized or in clear: the store has
\* not been reached
AfterKeyFailure(c) == c

\* the miss branch of memoized: fn is invoked (invocation i) and behaves as b
Miss(args, key, c, i, b) ==
    CASE b = "throw" ->
           /\ cache' = AfterSyncThrow(c, key, i)
           /\ invs' = Append(invs, Invocation(args, "failed", NoValue))
           /\ fresh' = FreshWith(key, i)
           /\ last' = CallResult(args, key, "throw", Err(i), i)
      [] b = "return" ->
           /\ cache' = CacheSet(c, SyncResultEntry(key, i))
           /\ invs' = Append(invs, Invocation(args, "ok", NoValue))
           /\ fresh' = FreshWith(key, i)
           /\ last' = CallResult(args, key, "return", Val(i), i)
      [] b = "async" ->
           /\ cache' = CacheSet(c, PendingEntry(key, i))
           /\ invs' = Append(invs, Invocation(args, "pending", Promise(i)))
           /\ fresh' = FreshWith(key, i)
           /\ last' = CallResult(args, key, "return", Promise(i), i)

\* memoized(...args), with at most bound invocations of fn in all, around a
\* function that behaves in one of the ways behaviours
CallWith(args, bound, behaviours) ==
    LET key == KeyOf(args) IN
    /\ IF key = KeyThrow
       THEN \* keyGenerator throws: nothing else happens
            /\ last' = CallResult(args, KeyThrow, "throw", KeyGenErr, 0)
            /\ cache' = AfterKeyFailure(cache)
            /\ UNCHANGED <<invs, fresh>>
       ELSE IF CacheHas(cache, key) /\ ~IsExpired(CacheGet(cache, key))
       THEN \* served from the store
            /\ LET out == HitOutcome(CacheGet(cache, key)) IN
               last' = CallResult(args, key, out.mode, out.value, 0)
            /\ UNCHANGED <<cache, invs, fresh>>
       ELSE \* no entry, or an expired one that purgeIfExpired deletes
            /\ Len(invs) < bound
            /\ \E b \in behaviours :
                  Miss(args, key, CacheDelete(cache, key), Len(invs) + 1, b)
    /\ UNCHANGED <<ttl, errorTTL, cacheErrors, keyGenerator, now, other>>

\* memoized(...args), with at most bound invocations of fn in all
CallB(args, bound) == CallWith(args, bound, FnBehaviours)

\* memoized(...args)
Call(args) == CallB(args, MaxInv)

\* the promise of invocation i is fulfilled (ok) or rejected, and the
\* continuation registered on it runs
Settle(i, ok) ==
    LET key == InvKey(i) IN
    /\ invs[i].state = "pending"
    /\ i \notin other.invs      \* the continuation closes over this wrapper's Map
    /\ cache' = IF ok THEN AfterFulfil(cache, key, i) ELSE AfterReject(cache, key, i)
    /\ invs' = [invs EXCEPT ![i].state = IF ok THEN "ok" ELSE "failed",
                            ![i].handle = NoValue]
    /\ fresh' = IF fresh[key].inv = i THEN fresh ELSE FreshWith(key, 0)
    /\ last' = [NoOp EXCEPT !.op = "settle", !.key = key, !.inv = i,
                            !.mode = ChainedOutcome(i, ok).state,
                            !.value = ChainedOutcome(i, ok).value]
    /\ UNCHANGED <<ttl, errorTTL, cacheErrors, keyGenerator, now, other>>

(* ------------------------- clear and stats ----------------------------- *)

\* mutant of ClearStore: clear(key) empties the store like clear()
ClearStoreAll(c, key) == <<>>

\* the store after clear(key)
ClearStore(c, key) ==
    IF key = NoKey THEN <<>> ELSE CacheDelete(c, KeyOf(key))

\* memoized.clear(key)
Clear(key) ==
    /\ IF key # NoKey /\ KeyOf(key) = KeyThrow
       THEN \* keyGenerator throws, and clear with it
            /\ cache' = AfterKeyFailure(cache)
            /\ last' = [NoOp EXCEPT !.op = "clear", !.args = key,
                                    !.key = KeyThrow, !.mode = "throw",
                                    !.value = KeyGenErr]
            /\ UNCHANGED fresh
       ELSE /\ cache' = ClearStore(cache, key)
            /\ fresh' = IF key = NoKey THEN [k \in Fingerprints |-> NotFresh]
                        ELSE FreshWith(KeyOf(key), 0)
            /\ last' = [NoOp EXCEPT !.op = "clear", !.args = key,
                                    !.key = IF key = NoKey THEN "" ELSE KeyOf(key)]
    /\ UNCHANGED <<ttl, errorTTL, cacheErrors, keyGenerator, now, invs, other>>

\* mutant of StatsOf: the entries past expiresAt are left out
StatsLive(c) ==
    LET live == SelectSeq(c, LAMBDA e : now <= e.expiresAt) IN
    [size |-> Len(live), keys |-> [n \in 1..Len(live) |-> live[n].key]]

\* what stats() returns
StatsOf(c) == [size |-> Len(c), keys |-> CacheKeys(c)]

\* memoized.stats()
Stats ==
    /\ last' = [NoOp EXCEPT !.op = "stats", !.size = StatsOf(cache).size,
                            !.keys = StatsOf(cache).keys]
    /\ UNCHANGED <<ttl, errorTTL, cacheErrors, keyGenerator, now, cache, invs, fresh,
                   other>>

(* ------------------------------ time ----------------------------------- *)

\* a millisecond passes; nothing of the wrapper runs
Tick ==
    /\ now < MaxTime
    /\ now' = now + 1
    /\ last' = NoOp
    /\ UNCHANGED <<ttl, errorTTL, cacheErrors, keyGenerator, cache, invs, fresh,
                   other>>

(* -------------------------- specification ------------------------------ *)

\* memoize(fn, options), with a key generator of gens: an empty store
InitWith(gens) ==
    /\ \E l \in Lifetimes : ttl = l[1] /\ errorTTL = l[2]
    /\ cacheErrors \in BOOLEAN
    /\ keyGenerator \in gens
    /\ now = 0
    /\ cache = NewStore
    /\ invs = <<>>
    /\ fresh = [k \in Fingerprints |-> NotFresh]
    /\ last = NoOp
    /\ other = [id |-> 2, cache |-> NewStore, invs |-> {},
                fresh |-> [k \in Fingerprints |-> NotFresh]]

\* memoize(fn, {keyGenerator, ...}) with a custom key generator
Init == InitWith(CustomKeyGenerators)

Next ==
    \/ \E args \in ArgLists : Call(args)
    \/ \E i \in 1..Len(invs), ok \in BOOLEAN : Settle(i, ok)
    \/ \E key \in {NoKey} \cup ArgLists : Clear(key)
    \/ Stats
    \/ Tick

Spec == Init /\ [][Next]_vars

\* memoize(fn, {...}) with the default key generator, and room for three
\* entries in the store
InitStats == InitWith(DefaultKeyGenerator)

NextStats ==
    \/ \E args \in ArgLists : CallB(args, MaxStatsInv)
    \/ \E i \in 1..Len(invs), ok \in BOOLEAN : Settle(i, ok)
    \/ \E key \in {NoKey} \cup ArgLists : Clear(key)
    \/ Stats
    \/ Tick

SpecStats == InitStats /\ [][NextStats]_vars

\* mutant of StoreOf: the wrapped functions share one store
StoreOfShared(own, current) == current

\* the store a wrapped function works on: the Map of its own memoize call,
\* whatever the store of the wrapped function that ran before it holds
StoreOf(own, current) == own

\* the caller turns to the other wrapped function: from here on the
\* operations are that one's, on its store, and the store of the one that ran
\* so far is kept aside
TurnToOther ==
    /\ cache' = StoreOf(other.cache, cache)
    /\ fresh' = other.fresh
    /\ other' = [id |-> 3 - other.id, cache |-> cache, fresh |-> fresh,
                 invs |-> (1..Len(invs)) \ other.invs]
    /\ last' = NoOp
    /\ UNCHANGED <<ttl, errorTTL, cacheErrors, keyGenerator, now, invs>>

\* two wrapped functions made by separate memoize calls around the same fn
NextTwo ==
    \/ \E args \in ArgLists : Call(args)
    \/ \E i \in 1..Len(invs), ok \in BOOLEAN : Settle(i, ok)
    \/ \E key \in {NoKey} \cup ArgLists : Clear(key)
    \/ Stats
    \/ Tick
    \/ TurnToOther

SpecTwo == Init /\ [][NextTwo]_vars

\* every promise fn returned is settled in the end, and the continuation
\* registered on it then runs
Settles(i) == i \in 1..Len(invs) /\ \E ok \in BOOLEAN : Settle(i, ok)

\* memoize(fn, {keyGenerator: byId, ...})
InitLive == InitWith({"byId"})

SpecLive == InitLive /\ [][Next]_vars /\ \A i \in 1..MaxInv : WF_vars(Settles(i))

\* memoize(fn, {...}) around an asynchronous function
NextAsync ==
    \/ \E args \in ArgLists : CallWith(args, MaxInv, AsyncBehaviours)
    \/ \E i \in 1..Len(invs), ok \in BOOLEAN : Settle(i, ok)
    \/ \E key \in {NoKey} \cup ArgLists : Clear(key)
    \/ Stats
    \/ Tick

SpecAsync == Init /\ [][NextAsync]_vars

(* ------------------------------ claims --------------------------------- *)

\* this step is a call of the wrapped function whose fingerprint is k
CallStep(k) == last'.op = "call" /\ last'.key = k

\* this step invoked the underlying function
Invokes == Len(invs') = Len(invs) + 1

\* this step did not invoke the underlying function
NoInvocation == invs' = invs

\* the store holds, under k, the pending handle of a computation still in flight
HasPending(k) ==
    /\ CacheHas(cache, k)
    /\ CacheGet(cache, k).value.t \in {"promise", "raw"}
    /\ invs[CacheGet(cache, k).value.inv].state = "pending"

\* invocation i has not failed: it returned a value, is still pending, or was
\* fulfilled
NotFailed(i) == invs[i].state \in {"ok", "pending"}

\* C1: while the store holds the pending handle of a computation for a
\* fingerprint and that computation has not settled, a call with the same
\* fingerprint does not invoke the underlying function again, whatever ttl is
\* and however long the computation takes.
C1_ConcurrentDedup ==
    [][\A k \in Fingerprints : (HasPending(k) /\ CallStep(k)) => NoInvocation]_vars

\* C2: a call that is served the pending handle of an entry gets the very handle
\* the call that started the computation got, the computation being still in
\* flight; and when the computation settles that handle settles to its outcome:
\* fulfilled with its value, or rejected with its error, with cacheErrors true
\* or false.
C2_JoinersShareHandle ==
    /\ (last.op = "call" /\ last.inv = 0 /\ last.value.t \in {"promise", "raw"}) =>
          /\ last.mode = "return"
          /\ invs[last.value.inv].state = "pending"
          /\ last.value = invs[last.value.inv].handle
          /\ KeyOf(invs[last.value.inv].args) = last.key
    /\ last.op = "settle" =>
          /\ invs[last.inv].state = "ok" =>
                (last.mode = "fulfilled" /\ last.value = Val(last.inv))
          /\ invs[last.inv].state = "failed" =>
                (last.mode = "rejected" /\ last.value = Err(last.inv))

\* a call has just been served the pending handle another call started
C2_Witness ==
    /\ last.op = "call" /\ last.inv = 0
    /\ last.value.t = "promise"
    /\ last.value = invs[last.value.inv].handle

\* the result r of a call is the result of invocation i: its handle, its value
\* or its error
SameResult(i, r) ==
    \/ r.mode = "return" /\ r.value = Promise(i) /\ invs[i].state = "pending"
    \/ r.mode = "return" /\ r.value = Val(i) /\ invs[i].state = "ok"
    \/ r.mode = "throw" /\ r.value = Err(i) /\ invs[i].state = "failed"

\* C3 as stated: a call with the fingerprint of an earlier call that invoked
\* the underlying function, made within ttl of it, does not invoke the
\* function again and has the earlier call's result.
C3_Original ==
    [][\A k \in Fingerprints :
          (CallStep(k) /\ fresh[k].inv # 0 /\ now <= fresh[k].at + ttl) =>
             (NoInvocation /\ SameResult(fresh[k].inv, last'))]_vars

\* C3 amended: when a call invoked the underlying function and that invocation
\* has not failed, a call with the same fingerprint made within ttl of it,
\* with no clear of the fingerprint and no settlement of another computation for
\* it in between, does not invoke the function again and has the first call's
\* result: the same pending handle, or the value it was fulfilled with.
C3_IdempotentWithinTTL ==
    [][\A k \in Fingerprints :
          (CallStep(k) /\ fresh[k].inv # 0 /\ now <= fresh[k].at + ttl
             /\ NotFailed(fresh[k].inv)) =>
             (/\ NoInvocation
              /\ last'.mode = "return"
              /\ SameResult(fresh[k].inv, last'))]_vars

\* a second call, made exactly ttl after the one that invoked the function, has
\* just been served that invocation's result
C3_Witness ==
    /\ last.op = "call" /\ last.inv = 0 /\ last.mode = "return"
    /\ fresh[last.key].inv # 0
    /\ now = fresh[last.key].at + ttl
    /\ last.value.inv = fresh[last.key].inv

\* the place of fingerprint k in the store's order (0: no entry)
Position(c, k) ==
    IF CacheHas(c, k) THEN CHOOSE n \in 1..Len(c) : c[n].key = k ELSE 0

\* the fingerprints that have an entry in store c
Stored(c) == {c[n].key : n \in 1..Len(c)}

\* apart from fingerprint k, the store is the same after the step
OthersUntouched(k) ==
    \A k2 \in (Stored(cache) \cup Stored(cache')) \ {k} :
       /\ CacheHas(cache', k2) /\ CacheHas(cache, k2)
       /\ CacheGet(cache', k2) = CacheGet(cache, k2)

\* C4: a call whose fingerprint has an entry is served that entry exactly while
\* now <= expiresAt; made strictly after expiresAt it removes the entry (what
\* the store then holds for the fingerprint is a new entry, last in the store's
\* order, of the fresh invocation) and invokes the underlying function anew.
\* The passage of time alone removes nothing from the store.
C4_Expiry ==
    [][/\ \A k \in Fingerprints :
            (CallStep(k) /\ CacheHas(cache, k)) =>
               LET e == CacheGet(cache, k) IN
               /\ now <= e.expiresAt =>
                     /\ NoInvocation
                     /\ cache' = cache
                     /\ last'.value = e.value
               /\ now > e.expiresAt =>
                     /\ Invokes
                     /\ last'.inv = Len(invs')
                     /\ \A n \in 1..Len(cache') : cache'[n] # e
                     /\ CacheHas(cache', k) =>
                           /\ CacheGet(cache', k).value.inv = Len(invs')
                           /\ Position(cache', k) = Len(cache')
                           /\ Len(cache') = Len(cache)
                     /\ ~CacheHas(cache', k) => Len(cache') = Len(cache) - 1
       /\ now' # now => cache' = cache]_vars

\* an entry whose invocation succeeded was found expired by a call, which has
\* just invoked the function a second time for the fingerprint
C4_Witness ==
    /\ last.op = "call" /\ last.inv = 2
    /\ KeyOf(invs[1].args) = last.key
    /\ invs[1].state = "ok"
    /\ fresh[last.key] = [inv |-> 2, at |-> now]
    /\ now > ttl

\* this step is a failure of invocation i of the underlying function: it threw
\* in the call that made it, or its promise was rejected
FailureStep(i) ==
    /\ i \in 1..Len(invs')
    /\ invs'[i].state = "failed"
    /\ i \in 1..Len(invs) => invs[i].state = "pending"

\* the operation before this step was the failure of an invocation for k
JustFailed(k) ==
    /\ last.key = k
    /\ \/ last.op = "call" /\ last.inv # 0 /\ last.mode = "throw"
       \/ last.op = "settle" /\ last.mode = "rejected"

\* C5: with cacheErrors = false, after a call has failed (the function threw,
\* or its promise was rejected) the store holds no entry for the fingerprint,
\* and an identical call made next invokes the underlying function again.
C5_ErrorsNotCached ==
    [][~cacheErrors =>
         /\ \A i \in 1..Len(invs') :
               FailureStep(i) => ~CacheHas(cache', KeyOf(invs'[i].args))
         /\ \A k \in Fingerprints :
               (JustFailed(k) /\ CallStep(k)) =>
                  (~CacheHas(cache, k) /\ Invokes /\ last'.inv = Len(invs'))]_vars

\* with cacheErrors = false the first invocation failed and the identical call
\* made next has invoked the function a second time
C5_Witness ==
    /\ ~cacheErrors
    /\ last.op = "call" /\ last.inv = 2
    /\ invs[1].args = last.args
    /\ invs[1].state = "failed"

\* C6: with cacheErrors = true a failure at time t stores the error, flagged
\* isError, with expiresAt = t + errorTTL (not ttl); a call that finds an error
\* entry raises the stored error itself without invoking the function while
\* now <= expiresAt, and invokes the function again once now > expiresAt.
C6_ErrorsCached ==
    [][cacheErrors =>
         /\ \A i \in 1..Len(invs') :
               FailureStep(i) =>
                  /\ CacheHas(cache', KeyOf(invs'[i].args))
                  /\ CacheGet(cache', KeyOf(invs'[i].args)) =
                        Entry(KeyOf(invs'[i].args), Err(i), now + errorTTL, TRUE)
         /\ \A k \in Fingerprints :
               (CallStep(k) /\ CacheHas(cache, k) /\ CacheGet(cache, k).isError) =>
                  LET e == CacheGet(cache, k) IN
                  /\ now <= e.expiresAt =>
                        /\ NoInvocation
                        /\ last'.mode = "throw"
                        /\ last'.value = e.value
                        /\ e.value.t = "err"
                  /\ now > e.expiresAt => Invokes]_vars

\* with cacheErrors = true a call has just re-raised the stored error of the
\* failed invocation without invoking the function
C6_Witness ==
    /\ cacheErrors
    /\ last.op = "call" /\ last.inv = 0 /\ last.mode = "throw"
    /\ last.value = Err(1)
    /\ invs[1].state = "failed"
    /\ Len(invs) = 1

\* C7: a call that invokes the underlying function gets exactly what the
\* invocation did (its value returned, its error raised, or the handle that
\* settles to its outcome), also when the error is stored; a call served from
\* the store returns a value or handle, or raises an error, that an invocation
\* for the same fingerprint produced as a value or handle, or as an error.
C7_OutcomePreserved ==
    /\ (last.op = "call" /\ last.inv # 0) =>
          LET i == last.inv IN
          /\ KeyOf(invs[i].args) = last.key
          /\ invs[i].state = "failed" => (last.mode = "throw" /\ last.value = Err(i))
          /\ invs[i].state = "ok" => (last.mode = "return" /\ last.value = Val(i))
          /\ invs[i].state = "pending" => (last.mode = "return" /\ last.value = Promise(i))
    /\ (last.op = "call" /\ last.inv = 0 /\ last.key # KeyThrow) =>
          LET j == last.value.inv IN
          /\ j \in 1..Len(invs)
          /\ KeyOf(invs[j].args) = last.key
          /\ last.mode = "return" =>
                \/ last.value = Val(j) /\ invs[j].state = "ok"
                \/ last.value = Promise(j) /\ invs[j].state = "pending"
          /\ last.mode = "throw" =>
                last.value = Err(j) /\ invs[j].state = "failed"
    /\ \A n \in 1..Len(cache) :
          LET e == cache[n] IN
          /\ e.value.inv \in 1..Len(invs)
          /\ KeyOf(invs[e.value.inv].args) = e.key
          /\ HitOutcome(e).mode = "throw" <=> invs[e.value.inv].state = "failed"

\* with cacheErrors = true the promise of an invocation has just been rejected:
\* the error is stored and the handle is rejected with it all the same
C7_Witness ==
    /\ cacheErrors
    /\ last.op = "settle" /\ last.mode = "rejected"
    /\ CacheHas(cache, last.key)
    /\ CacheGet(cache, last.key).value = last.value

\* C8: clear() with no argument (or null) leaves the store empty, so that
\* stats().size is 0; clear(args) removes the entry of the fingerprint of args
\* and leaves every other entry, and the order of the entries, as they were;
\* neither invokes the underlying function.
C8_ManualClear ==
    [][last'.op = "clear" =>
         /\ NoInvocation
         /\ last'.args = NoKey =>
               (Stored(cache') = {} /\ StatsOf(cache').size = 0)
         /\ (last'.args # NoKey /\ Fingerprint(last'.args) # KeyThrow) =>
               LET k == Fingerprint(last'.args) IN
               /\ Stored(cache') = Stored(cache) \ {k}
               /\ OthersUntouched(k)
               /\ \A k1, k2 \in Stored(cache') :
                     (Position(cache, k1) < Position(cache, k2)) =>
                        (Position(cache', k1) < Position(cache', k2))]_vars

\* clear(args) has just removed the entry of one fingerprint from a store that
\* still holds the entry of another
C8_Witness ==
    /\ last.op = "clear" /\ last.args # NoKey
    /\ Len(invs) = 2
    /\ KeyOf(invs[1].args) # KeyOf(invs[2].args)
    /\ last.key = KeyOf(invs[1].args)
    /\ Stored(cache) = {KeyOf(invs[2].args)}
    /\ NotFailed(1) /\ NotFailed(2)

\* C9: stats() returns as size the number of fingerprints that have an entry
\* and as keys those fingerprints, each once, in the order of the store, with
\* the entries past expiresAt and the pending ones included, and leaves the
\* store as it was; the order of the store is the order of insertion: a step
\* puts a fingerprint it inserts last, and changes the order of two stored
\* fingerprints only by removing and reinserting the first of them.
C9_StatsAccuracy ==
    [][/\ last'.op = "stats" =>
            /\ cache' = cache
            /\ last'.size = Cardinality(Stored(cache))
            /\ Len(last'.keys) = last'.size
            /\ \A k \in Stored(cache) :
                  /\ Position(cache, k) \in 1..Len(last'.keys)
                  /\ last'.keys[Position(cache, k)] = k
       /\ \A k \in Stored(cache') \ Stored(cache) :
             Position(cache', k) = Len(cache')
       /\ \A k1, k2 \in Stored(cache) \cap Stored(cache') :
             (/\ Position(cache, k1) < Position(cache, k2)
              /\ Position(cache', k1) > Position(cache', k2)) =>
                (/\ CallStep(k1) /\ Invokes
                 /\ Position(cache', k1) = Len(cache'))]_vars

\* stats() has just returned size 3 and the three fingerprints, with one entry
\* past its expiresAt and one still pending among them
C9_Witness ==
    /\ last.op = "stats" /\ last.size = 3
    /\ {last.keys[n] : n \in 1..3} = {"[1,1]", "[1,2]", "[2,1]"}
    /\ \E n \in 1..3 : now > cache[n].expiresAt
    /\ \E n \in 1..3 : cache[n].value.t = "promise"

\* C10: a call reads and changes the store only under the fingerprint that the
\* configured key generator returns for its arguments: every entry of another
\* fingerprint stays as it is and what the call returns comes from an
\* invocation for its own fingerprint; when that fingerprint has an entry that
\* is not expired the call is served it without invoking the function,
\* whichever argument list the entry was made for.
C10_CustomKeyGenerator ==
    [][\A args \in ArgLists :
          (last'.op = "call" /\ last'.args = args /\ Fingerprint(args) # KeyThrow) =>
             LET k == Fingerprint(args) IN
             /\ OthersUntouched(k)
             /\ last'.value.inv \in 1..Len(invs') /\
                   Fingerprint(invs'[last'.value.inv].args) = k
             /\ (CacheHas(cache, k) /\ now <= CacheGet(cache, k).expiresAt) =>
                   /\ NoInvocation
                   /\ last'.value = CacheGet(cache, k).value
             /\ ~CacheHas(cache, k) => Invokes]_vars

\* under a custom generator a call has just been served the entry that a call
\* with another argument list of the same fingerprint made, while the entry of
\* a different fingerprint is in the store
C10_Witness ==
    /\ keyGenerator = "byId"
    /\ last.op = "call" /\ last.inv = 0 /\ last.mode = "return"
    /\ invs[last.value.inv].args # last.args
    /\ \E k \in Stored(cache) : k # last.key

\* C11: when a pending computation succeeds at time s, the entry of its
\* fingerprint becomes {value: the settled result, expiresAt: s + ttl}; a call
\* that finds a settled value is served it, without an invocation, at every
\* time up to expiresAt, whenever the function was invoked.
C11_SettlementRestartsExpiry ==
    [][/\ (last'.op = "settle" /\ last'.mode = "fulfilled") =>
            /\ CacheHas(cache', last'.key)
            /\ CacheGet(cache', last'.key) =
                  Entry(last'.key, Val(last'.inv), now + ttl, FALSE)
       /\ \A k \in Fingerprints :
             (/\ CallStep(k) /\ CacheHas(cache, k)
              /\ CacheGet(cache, k).value.t = "val"
              /\ now <= CacheGet(cache, k).expiresAt) =>
                /\ NoInvocation
                /\ last'.mode = "return"
                /\ last'.value = CacheGet(cache, k).value]_vars

\* a call made later than ttl after the invocation, and within ttl of its
\* settlement, has just been served the settled value
C11_Witness ==
    /\ last.op = "call" /\ last.inv = 0 /\ last.mode = "return"
    /\ last.value.t = "val"
    /\ fresh[last.key].inv = last.value.inv
    /\ now > fresh[last.key].at + ttl
    /\ CacheGet(cache, last.key).expiresAt > fresh[last.key].at + ttl

\* C12: the settlement of a pending computation and the update of the store
\* are one step for the holders of its handle: when the handle is fulfilled
\* the store holds the settled value, when it is rejected the store holds the
\* error (cacheErrors) or no entry for the fingerprint; so a call made with
\* the same fingerprint right after a fulfilment is served the settled value
\* and invokes nothing.
C12_StoreUpdatePrecedesDelivery ==
    [][/\ last'.op = "settle" =>
            LET k == last'.key IN
            /\ last'.mode = "fulfilled" =>
                  (CacheHas(cache', k) /\ CacheGet(cache', k).value = Val(last'.inv))
            /\ (last'.mode = "rejected" /\ cacheErrors) =>
                  /\ CacheHas(cache', k)
                  /\ CacheGet(cache', k).value = Err(last'.inv)
                  /\ CacheGet(cache', k).isError
            /\ (last'.mode = "rejected" /\ ~cacheErrors) => ~CacheHas(cache', k)
       /\ \A k \in Fingerprints :
             (/\ last.op = "settle" /\ last.mode = "fulfilled" /\ last.key = k
              /\ CallStep(k)) =>
                /\ NoInvocation
                /\ last'.mode = "return"
                /\ last'.value = last.value]_vars

\* a call made in the millisecond in which the computation was fulfilled,
\* later than its invocation, has just been served the settled value
C12_Witness ==
    /\ last.op = "call" /\ last.inv = 0 /\ last.mode = "return"
    /\ last.value.t = "val"
    /\ fresh[last.key].inv = last.value.inv
    /\ fresh[last.key].at < now
    /\ CacheGet(cache, last.key).expiresAt = now + ttl

\* the state of the entry of fingerprint k in store c
EntryState(c, k) ==
    IF ~CacheHas(c, k) THEN "absent"
    ELSE IF CacheGet(c, k).isError THEN "error-cached"
    ELSE IF CacheGet(c, k).value.t \in {"promise", "raw"} THEN "pending"
    ELSE "settled"

\* the transitions of the entry of a fingerprint
Transitions ==
    {<<"absent", "pending">>, <<"pending", "settled">>,
     <<"pending", "error-cached">>, <<"pending", "absent">>,
     <<"settled", "absent">>, <<"error-cached", "absent">>}

\* C13: the entry of a fingerprint starts absent and changes state only along
\* absent -> pending, pending -> settled, pending -> error-cached,
\* pending -> absent, settled -> absent and error-cached -> absent, over every
\* sequence of calls, settlements, clock advances and clears.  A call that
\* invokes the function is read as taking several of these transitions at
\* once (the purge of the expired entry, the installation and, when the
\* function returns or throws synchronously, the settlement); every other
\* step takes at most one.
C13_StateMachine ==
    [][\A k \in Fingerprints :
          \/ EntryState(cache', k) = EntryState(cache, k)
          \/ <<EntryState(cache, k), EntryState(cache', k)>> \in Transitions
          \/ CallStep(k) /\ Invokes]_vars

\* C14: a fingerprint that has no entry gets one only by a call with that
\* fingerprint that missed and invoked the function; the settlement of a
\* computation writes only over an entry that is there.  So after clear() or
\* clear(args) removed the entry of a fingerprint, the fingerprint has no
\* entry until the next call with it.
C14_EntryLifecycle ==
    [][\A k \in Fingerprints :
          (~CacheHas(cache, k) /\ CacheHas(cache', k)) =>
             (CallStep(k) /\ Invokes)]_vars

\* C15: around a function that never throws and fails only by the rejection
\* of the promise it returned, no call of the wrapped function raises
\* synchronously (the key generator left aside): every call returns, a
\* failure being delivered through the handle returned, also when the call is
\* served from a stored error (cacheErrors = true).
C15_AsyncFailureMode ==
    (last.op = "call" /\ last.key # KeyThrow) => last.mode = "return"

\* C16: when the key generator throws in a call or in clear(args), the caller
\* gets that failure, the underlying function is not invoked and the store is
\* exactly as it was: no entry is read, purged, inserted or deleted.
C16_KeyGenerationFailure ==
    [][\A args \in ArgLists :
          (/\ last'.op \in {"call", "clear"} /\ last'.args = args
           /\ Fingerprint(args) = KeyThrow) =>
             /\ last'.mode = "throw"
             /\ last'.value = KeyGenErr
             /\ NoInvocation
             /\ cache' = cache]_vars

\* the key generator has just thrown in clear(args), with an entry past its
\* expiresAt and a pending one in the store
C16_Witness ==
    /\ last.op = "clear" /\ last.key = KeyThrow /\ last.mode = "throw"
    /\ \E n \in 1..Len(cache) : now > cache[n].expiresAt
    /\ \E n \in 1..Len(cache) : cache[n].value.t = "promise"

\* the invocations the wrapped function now running has made
OwnInvs == (1..Len(invs)) \ other.invs

\* the invocations whose values, errors or handles store c holds
HeldBy(c) == {c[n].value.inv : n \in 1..Len(c)}

\* C17: two wrapped functions made by separate memoize calls, around the same
\* function and with the same key generator, have disjoint stores: each store
\* holds only what an invocation of its own wrapped function produced; a
\* call, a settlement, a purge or a clear of one leaves the entries (and
\* therefore the stats) of the other as they are; and a call with a
\* fingerprint for which the wrapped function itself has invoked nothing is a
\* miss, whatever the other one has stored.
C17_StoreIsolation ==
    [][/\ HeldBy(cache) \subseteq OwnInvs
       /\ HeldBy(other.cache) \subseteq other.invs
       /\ other'.id = other.id =>
             (other'.cache = other.cache /\ StatsOf(other'.cache) = StatsOf(other.cache))
       /\ other'.id # other.id =>
             (cache' = other.cache /\ other'.cache = cache)
       /\ \A k \in Fingerprints :
             (CallStep(k) /\ \A i \in OwnInvs : InvKey(i) # k) =>
                (Invokes /\ last'.inv = Len(invs'))]_vars

\* a call of one wrapped function has just missed and invoked the function for
\* a fingerprint whose entry, not expired, is in the store of the other
C17_Witness ==
    /\ last.op = "call" /\ last.inv = 2
    /\ other.invs = {1}
    /\ CacheHas(other.cache, last.key)
    /\ now <= CacheGet(other.cache, last.key).expiresAt
    /\ CacheGet(cache, last.key) # CacheGet(other.cache, last.key)

\* this step is the settlement of invocation i
SettleStep(i) == last'.op = "settle" /\ last'.inv = i

\* C18: the settlement of a computation touches only the entry that its own
\* call installed: when its pending entry was removed (by clear, or by the
\* purge of the expired pending entry) and the fingerprint now has the entry
\* of another computation, its success or failure neither overwrites nor
\* deletes that entry; so the entry of a fingerprint is always of the
\* invocation most recently started for it.
C18_SettlementOwnEntryOnly ==
    [][/\ \A i \in 1..Len(invs) :
             (/\ SettleStep(i)
              /\ CacheHas(cache, InvKey(i))
              /\ CacheGet(cache, InvKey(i)).value.inv # i) =>
                /\ CacheHas(cache', InvKey(i))
                /\ CacheGet(cache', InvKey(i)) = CacheGet(cache, InvKey(i))
       /\ \A k \in Stored(cache') :
             \A i \in 1..Len(invs') :
                KeyOf(invs'[i].args) = k => i <= CacheGet(cache', k).value.inv]_vars

\* C19: with cacheErrors = false no entry of the store is flagged isError or
\* holds an error, and no call raises a stored error: an error raised by a
\* call is the error of the invocation that very call made, and an error
\* delivered through a handle is the error of the computation the handle
\* belongs to.
C19_NoStoredErrors ==
    ~cacheErrors =>
       /\ \A n \in 1..Len(cache) :
             ~cache[n].isError /\ cache[n].value.t # "err"
       /\ (last.op = "call" /\ last.mode = "throw" /\ last.key # KeyThrow) =>
             /\ last.inv = Len(invs)
             /\ last.value = Err(last.inv)
             /\ invs[last.inv].state = "failed"
       /\ (last.op = "settle" /\ last.mode = "rejected") =>
             /\ last.value = Err(last.inv)
             /\ ~CacheHas(cache, last.key)

\* with cacheErrors = false a second computation for the fingerprint of a
\* failed one has just been rejected, and the store is empty
C19_Witness ==
    /\ ~cacheErrors
    /\ last.op = "settle" /\ last.mode = "rejected" /\ last.inv = 2
    /\ invs[1].state = "failed" /\ InvKey(1) = last.key
    /\ cache = <<>>

\* no entry of the store holds a pending handle
NoPendingEntry ==
    \A n \in 1..Len(cache) : cache[n].value.t \notin {"promise", "raw"}

\* C20: when every promise the underlying function returned settles in the
\* end and, from some point on, no call invokes the function any more, then
\* from some point on no entry of the store holds a pending handle: each
\* pending entry has been replaced by the settled value or by the error, or
\* deleted, when its computation settled.
C20_PendingEntriesResolve ==
    (<>[][NoInvocation]_vars) => <>[]NoPendingEntry

\* the last computation in flight has just settled: two computations have
\* settled, one entry holds a value and one an error, and none a handle
C20_Witness ==
    /\ last.op = "settle"
    /\ Len(invs) = 2 /\ \A i \in 1..Len(invs) : invs[i].state # "pending"
    /\ Len(cache) = 2 /\ NoPendingEntry
    /\ \E n \in 1..Len(cache) : cache[n].isError
    /\ \E n \in 1..Len(cache) : cache[n].value.t = "val"

====
